---- MODULE Spec2Model ----
(***************************************************************************)
(* Model of the nix-ai-help MCP test harness: the test runners             *)
(* (tests/mcp, tests/vscode, tests/providers __main__), the protocol       *)
(* checks that talk JSON-RPC over /tmp/nixai-mcp.sock, and the VS Code     *)
(* diagnostic tool.  The server and the host are the environment.          *)
(***************************************************************************)
EXTENDS Integers, Sequences, FiniteSets, TLC

(***************************************************************************)
(* Bounds of the model and constants of the program.                       *)
(***************************************************************************)
\* How many times the host environment (socket path, server) may change
\* while one entry point runs.
MaxEnvChanges == 1

\* The ids a response may carry: 0 (no "id") .. MaxRespId.  The requests
\* carry 1, 2 and 3.
MaxRespId == 3

\* The most steps any protocol check has (initialize, tools/list, tools/call).
MaxSteps == 3

(***************************************************************************)
(* What recv() can hand back.  A payload is the byte string the server     *)
(* sent, abstracted to the features the scripts look at.                   *)
(*   kind   "empty"    b'' (zero-length read)                              *)
(*          "badutf8"  bytes that .decode('utf-8') rejects                 *)
(*          "blank"    whitespace only, e.g. "\n"                          *)
(*          "garbage"  text that is not JSON                               *)
(*          "jlist"    a JSON array   (valid JSON, not an object)          *)
(*          "jnum"     a JSON number  (valid JSON, not an object)          *)
(*          "obj"      a JSON object with the envelope fields below        *)
(*   id     0 when the object has no "id", else the id it carries          *)
(*   result "absent" when the object has no "result" key, else its value   *)
(*   error  whether the object has an "error" key                          *)
(***************************************************************************)
ResultVals ==
    { "null",            \* "result": null
      "empty_obj",       \* "result": {}
      "init",            \* {"protocolVersion": .., "serverInfo": {"name": ..}}
      "tools_ok",        \* {"tools": [{"name": .., "description": ..}]}
      "tools_empty",     \* {"tools": []}
      "tools_num",       \* {"tools": 5}
      "tools_str",       \* {"tools": "abc"}
      "tools_str_empty", \* {"tools": ""}
      "tools_obj",       \* {"tools": {"a": 1}}
      "tools_obj_empty", \* {"tools": {}}
      "tools_null",      \* {"tools": null}
      "content_ok",      \* {"content": [{"text": ".."}]}
      "content_empty" }  \* {"content": []}

NonObjKinds == {"empty", "badutf8", "blank", "garbage", "jlist", "jnum"}

Payloads ==
    [kind : NonObjKinds, id : {0}, result : {"absent"}, error : {FALSE}]
    \cup
    [kind : {"obj"}, id : 0..MaxRespId, result : ResultVals \cup {"absent"},
     error : BOOLEAN]

\* What the server does with a request: answer with a payload, never answer
\* ("silent"), or drop the connection so that recv raises ("reset").
Silent == [kind |-> "silent", id |-> 0, result |-> "absent", error |-> FALSE]
Reset == [kind |-> "reset", id |-> 0, result |-> "absent", error |-> FALSE]
NoData == [kind |-> "none", id |-> 0, result |-> "absent", error |-> FALSE]
ServerReplies == Payloads \cup {Silent, Reset}

(***************************************************************************)
(* The Python operations the scripts apply to a payload.                   *)
(***************************************************************************)
\* bytes.decode('utf-8') raises UnicodeDecodeError
DecodeRaises(p) == p.kind = "badutf8"

\* json.loads(text) raises json.JSONDecodeError: the empty string,
\* whitespace only (with or without .strip()) and non-JSON text
JSONDecodeError(p) == p.kind \in {"empty", "blank", "garbage"}

\* the parsed value is a dict
IsDict(p) == p.kind = "obj"

\* `'result' in response` for a dict; false for a list
HasResult(p) == p.kind = "obj" /\ p.result # "absent"

\* the value of "result" is a dict
ResultIsDict(p) == HasResult(p) /\ p.result # "null"

\* `'tools' in response['result']` for a dict result
HasTools(p) ==
    p.result \in {"tools_ok", "tools_empty", "tools_num", "tools_str",
                  "tools_str_empty", "tools_obj", "tools_obj_empty",
                  "tools_null"}

\* the values of "tools" that are not a JSON array
NonListTools ==
    {"tools_num", "tools_str", "tools_str_empty", "tools_obj",
     "tools_obj_empty", "tools_null"}

\* len(tools) and the loop over tools run without raising: a list of tool
\* objects, and everything that has a length of 0 (the loop body, which
\* subscripts the element, never runs).  len() of a number or of None
\* raises, and so does the loop body on a character or on a dict key.
ToolsIterable(p) ==
    p.result \in {"tools_ok", "tools_empty", "tools_str_empty",
                  "tools_obj_empty"}

\* `'content' in result`
HasContent(p) == p.result \in {"content_ok", "content_empty"}

\* response['result']['serverInfo']['name'] and ['protocolVersion'] exist
HasServerInfo(p) == p.result = "init"

(***************************************************************************)
(* The protocol checks ("scenarios") of the repository.                    *)
(*   mcp_protocol      tests/mcp/test_mcp_protocol.py  test_mcp_protocol   *)
(*   mcp_simple        tests/mcp/test_mcp_simple.py    test_mcp_simple     *)
(*   simple_socket     tests/mcp/test_simple_socket.py test_simple_socket  *)
(*   int_protocol      tests/vscode/test_vscode_mcp_integration.py         *)
(*                     test_mcp_protocol                                   *)
(*   socket_connection same file, test_socket_connection                   *)
(*   diag_protocol     tests/vscode/vscode_mcp_diagnostic.py               *)
(*                     test_mcp_protocol                                   *)
(***************************************************************************)
Scenarios ==
    { "mcp_protocol", "mcp_simple", "simple_socket", "int_protocol",
      "socket_connection", "diag_protocol" }

\* the requests a scenario sends, in order
NumSteps(s) ==
    CASE s = "mcp_protocol" -> 3
      [] s = "diag_protocol" -> 2
      [] s \in {"mcp_simple", "int_protocol"} -> 1
      [] OTHER -> 0

\* whether the scenario calls sock.settimeout(..) before connect
HasDeadline(s) == s \in {"simple_socket", "mcp_simple", "diag_protocol"}

\* what the function returns when it gives up: the two print-only scripts
\* have no return statement at all
FailRet(s) == IF s \in {"mcp_protocol", "mcp_simple"} THEN "None" ELSE "False"

\* a script whose requests all carry the id of the first
RequestId_copied(i) == 1

\* the "id" of the i-th request dict
RequestId(i) == i

StepMethod(i) ==
    CASE i = 1 -> "initialize" [] i = 2 -> "tools/list" [] OTHER -> "tools/call"

(***************************************************************************)
(* What each script does with the payload of one step.  The outcome is the *)
(* report path the script takes:                                           *)
(*   "pass"          the success message                                   *)
(*   "no_response"   "No response received"                                *)
(*   "invalid_json"  "Response not valid JSON" / "Invalid JSON response"   *)
(*   "no_result"     "response without result" / "Invalid response"        *)
(*   "shape"         "Unexpected content format"                           *)
(*   "raise"         an exception reaches the outer `except Exception`     *)
(***************************************************************************)
Outcomes ==
    {"pass", "no_response", "invalid_json", "no_result", "shape", "raise"}

\* tests/mcp/test_mcp_protocol.py, Test 1
mcp_initialize_step(p) ==
    IF DecodeRaises(p) THEN "raise"
    ELSE IF p.kind = "empty" THEN "no_response"
    ELSE IF JSONDecodeError(p) THEN "invalid_json"
    ELSE IF ~IsDict(p) THEN "raise"              \* response.get('id')
    ELSE IF HasResult(p) THEN "pass"
    ELSE "no_result"

\* tests/mcp/test_mcp_protocol.py, Test 2
mcp_tools_list_step(p) ==
    IF DecodeRaises(p) THEN "raise"
    ELSE IF p.kind = "empty" THEN "no_response"
    ELSE IF JSONDecodeError(p) THEN "invalid_json"
    ELSE IF p.kind = "jnum" THEN "raise"         \* 'result' in 5
    ELSE IF ~HasResult(p) THEN "no_result"
    ELSE IF ~ResultIsDict(p) THEN "raise"        \* 'tools' in None
    ELSE IF ~HasTools(p) THEN "no_result"
    ELSE IF ToolsIterable(p) THEN "pass"
    ELSE "raise"                                 \* len(5)

\* tests/mcp/test_mcp_protocol.py, Test 3
mcp_tools_call_step(p) ==
    IF DecodeRaises(p) THEN "raise"
    ELSE IF p.kind = "empty" THEN "no_response"
    ELSE IF JSONDecodeError(p) THEN "invalid_json"
    ELSE IF p.kind = "jnum" THEN "raise"
    ELSE IF ~HasResult(p) THEN "no_result"
    ELSE IF ResultIsDict(p) /\ HasContent(p)
         THEN (IF p.result = "content_ok" THEN "pass" ELSE "shape")
    ELSE "pass"                                  \* prints str(result)

\* tests/mcp/test_mcp_simple.py: prints whatever arrives
mcp_simple_step(p) ==
    IF p.kind = "empty" THEN "no_response"
    ELSE IF DecodeRaises(p) THEN "raise"
    ELSE "pass"

\* tests/vscode/test_vscode_mcp_integration.py test_mcp_protocol
integration_initialize_step(p) ==
    IF DecodeRaises(p) THEN "raise"
    ELSE IF JSONDecodeError(p) THEN "raise"      \* caught by except Exception
    ELSE IF p.kind = "jnum" THEN "raise"
    ELSE IF HasResult(p) THEN "pass"
    ELSE "no_result"

\* tests/vscode/vscode_mcp_diagnostic.py test_mcp_protocol, initialize
diagnostic_initialize_step(p) ==
    IF DecodeRaises(p) THEN "raise"
    ELSE IF p.kind = "empty" THEN "no_response"
    ELSE IF JSONDecodeError(p) THEN "invalid_json"
    ELSE IF p.kind = "jnum" THEN "raise"
    ELSE IF ~HasResult(p) THEN "no_result"
    ELSE IF HasServerInfo(p) THEN "pass"
    ELSE "raise"                                 \* KeyError / TypeError

\* tests/vscode/vscode_mcp_diagnostic.py test_mcp_protocol, tools/list
diagnostic_tools_list_step(p) ==
    IF DecodeRaises(p) THEN "raise"
    ELSE IF JSONDecodeError(p) THEN "invalid_json"
    ELSE IF ~HasResult(p) THEN "raise"           \* response['result']
    ELSE IF ~ResultIsDict(p) \/ ~HasTools(p) THEN "raise"
    ELSE IF ToolsIterable(p) THEN "pass"
    ELSE "raise"

StepOutcome(s, i, p) ==
    CASE s = "mcp_protocol" /\ i = 1 -> mcp_initialize_step(p)
      [] s = "mcp_protocol" /\ i = 2 -> mcp_tools_list_step(p)
      [] s = "mcp_protocol" /\ i = 3 -> mcp_tools_call_step(p)
      [] s = "mcp_simple" -> mcp_simple_step(p)
      [] s = "int_protocol" -> integration_initialize_step(p)
      [] s = "diag_protocol" /\ i = 1 -> diagnostic_initialize_step(p)
      [] s = "diag_protocol" /\ i = 2 -> diagnostic_tools_list_step(p)
      [] OTHER -> "raise"

(***************************************************************************)
(* What the script does after a step's outcome: whether it calls           *)
(* sock.close(), and where it goes: on to the next request on the same     *)
(* socket ("send"), to a new socket ("connect"), or out of the function    *)
(* ("True" / "False" / "None": the value returned).                        *)
(***************************************************************************)
mcp_protocol_after(i, o) ==
    IF o = "raise" THEN [close |-> FALSE, next |-> "None"]
    ELSE IF i < 3 THEN [close |-> FALSE, next |-> "send"]
    ELSE [close |-> TRUE, next |-> "None"]

mcp_simple_after(i, o) ==
    IF o = "raise" THEN [close |-> FALSE, next |-> "None"]
    ELSE [close |-> TRUE, next |-> "None"]

integration_protocol_after(i, o) ==
    IF o = "raise" THEN [close |-> FALSE, next |-> "False"]
    ELSE IF o = "pass" THEN [close |-> TRUE, next |-> "True"]
    ELSE [close |-> TRUE, next |-> "False"]

diagnostic_protocol_after(i, o) ==
    IF o = "raise" THEN [close |-> FALSE, next |-> "False"]
    ELSE IF o # "pass" THEN [close |-> TRUE, next |-> "False"]
    ELSE IF i = 1 THEN [close |-> TRUE, next |-> "connect"]
    ELSE [close |-> FALSE, next |-> "True"]

After(s, i, o) ==
    CASE s = "mcp_protocol" -> mcp_protocol_after(i, o)
      [] s = "mcp_simple" -> mcp_simple_after(i, o)
      [] s = "int_protocol" -> integration_protocol_after(i, o)
      [] OTHER -> diagnostic_protocol_after(i, o)

(***************************************************************************)
(* The host: what is at /tmp/nixai-mcp.sock.                               *)
(*   "missing"  no file          "stale"   a socket file nobody listens on *)
(*   "live"     a listening server socket                                  *)
(*   "noperm"   a socket the user may not connect to                       *)
(*   "regular"  a non-empty regular file                                   *)
(***************************************************************************)
EnvStates == {"missing", "stale", "live", "noperm", "regular"}

\* os.path.exists(socket_path)
PathExists(e) == e # "missing"

\* what sock.connect(socket_path) does; a timeout needs settimeout()
ConnectResults(e, deadline) ==
    CASE e = "missing" -> {"notfound"}
      [] e = "noperm" -> {"denied"}
      [] e = "live" -> IF deadline THEN {"ok", "timeout"} ELSE {"ok"}
      [] OTHER -> {"refused"}

(***************************************************************************)
(* State.                                                                  *)
(***************************************************************************)
VARIABLES
    entry,       \* the entry point that was started
    pc,          \* where its main function is
    testIdx,     \* runners: the number of run_test calls finished
    passed,      \* runners: main's counter
    failed,      \* runners: main's counter
    recorded,    \* runners: PASSED (TRUE) / FAILED (FALSE) lines, in order
    how,         \* runners: for each finished test, its name and how
                 \* run_python_test / run_shell_test came to its value
    results,     \* diagnostic: the results dict, in insertion order
    config,      \* diagnostic: what the configuration check that just ran
                 \* found in settings.json and what it made of it
    summary,     \* the numbers and the verdict of the summary it printed
    children,    \* the child processes the script started, in order, each
                 \* "running", "exited" or "killed"
    exitCode,    \* the process exit status, -1 while it runs
    env,         \* the host
    envChanges,  \* how often the host changed so far
    scen,        \* the protocol check being executed, "none" before the first
    spc,         \* its position: "connect", "send", "recv", "done"
    step,        \* the step it is at (1 ..)
    socks,       \* the sockets it created, in order
    sent,        \* the requests it sent, in order
    ops,         \* the send and recv calls that returned, in order
    pending,     \* what the server does with the request in flight
    chunked,     \* whether its reply arrives in two pieces
    leftover,    \* whether a piece of an earlier reply is still unread on
                 \* the current connection
    data,        \* what the last recv handed back, and for which step
    outcome,     \* the report path of each step
    ret,         \* the value the function returned, "unset" while it runs
    ending       \* how it left: "running", "completed", "step_failed",
                 \* "exception", "connect_failed", "not_found"

runnerVars == <<testIdx, passed, failed, recorded, how>>
scenVars ==
    <<scen, spc, step, socks, sent, ops, pending, chunked, leftover, data,
      outcome, ret, ending>>
vars ==
    <<entry, pc, testIdx, passed, failed, recorded, how, results, config, summary,
      children, exitCode, env,
      envChanges, scen, spc, step, socks, sent, ops, pending, chunked,
      leftover, data, outcome, ret, ending>>

NoSummary == [printed |-> FALSE]
NoConfig == [probed |-> FALSE]
NoOutcomes == [i \in 1..MaxSteps |-> "none"]
\* data: the step, the bytes recv handed back (payload), whether they are
\* the whole reply to the step's request, the first piece of it ("head") or
\* start with the rest of an earlier reply ("tail"), and the reply the
\* server sent to the step's request
NoReceived == [step |-> 0, payload |-> NoData, part |-> "whole", reply |-> NoData]

\* a piece of a JSON text: a proper prefix of an object, or the rest of one
\* followed by whatever came after it, is text that is not JSON
Piece == [kind |-> "garbage", id |-> 0, result |-> "absent", error |-> FALSE]

\* what one sock.recv(..) hands back: the bytes that have arrived on the
\* connection, not a frame.  With the rest of an earlier reply still unread
\* it is that rest (and what followed it); of a reply that arrives in two
\* pieces it is the first; else the reply.
Received(r, isChunked, hasLeftover) ==
    IF hasLeftover THEN [payload |-> Piece, part |-> "tail"]
    ELSE IF isChunked THEN [payload |-> Piece, part |-> "head"]
    ELSE [payload |-> IF r \in Payloads THEN r ELSE NoData, part |-> "whole"]

\* sock.close() on the socket the name `sock` is bound to: the last created
CloseCurrent(ss) == [ss EXCEPT ![Len(ss)].open = FALSE]

\* The function returns and its locals die.  A socket it did not close is
\* closed when the interpreter finalizes the object: at once under reference
\* counting, at some later time or never otherwise.  Both are possible.
AtReturn(ss) ==
    {ss, [i \in 1..Len(ss) |-> [ss[i] EXCEPT !.open = FALSE]]}

(***************************************************************************)
(* A protocol check, from its call to its return.                          *)
(***************************************************************************)
\* the call: locals are fresh.  The diagnostic's check looks at the path
\* first and returns False without creating a socket when it is missing.
ScenCall(s) ==
    /\ scen' = s
    /\ step' = 1
    /\ socks' = << >>
    /\ sent' = << >>
    /\ ops' = << >>
    /\ pending' = NoData
    /\ chunked' = FALSE
    /\ leftover' = FALSE
    /\ data' = NoReceived
    /\ outcome' = NoOutcomes
    /\ IF s = "diag_protocol" /\ ~PathExists(env)
       THEN spc' = "done" /\ ret' = "False" /\ ending' = "not_found"
       ELSE spc' = "connect" /\ ret' = "unset" /\ ending' = "running"

\* the caller has stored the value returned: the frame of the check, with
\* every local in it, is gone
ScenReturn ==
    /\ scen' = "none"
    /\ spc' = "idle"
    /\ step' = 1
    /\ socks' = << >>
    /\ sent' = << >>
    /\ ops' = << >>
    /\ pending' = NoData
    /\ chunked' = FALSE
    /\ leftover' = FALSE
    /\ data' = NoReceived
    /\ outcome' = NoOutcomes
    /\ ret' = "unset"
    /\ ending' = "running"

\* socket.socket(..); [settimeout(..);] sock.connect(socket_path)
sock_connect ==
    /\ spc = "connect"
    /\ \E r \in ConnectResults(env, HasDeadline(scen)) :
        LET s == [open |-> TRUE, deadline |-> HasDeadline(scen),
                  connected |-> (r = "ok")]
        IN  IF r # "ok"
            THEN /\ socks' \in AtReturn(Append(socks, s))
                 /\ spc' = "done"
                 /\ ret' = FailRet(scen)
                 /\ ending' = "connect_failed"
            ELSE IF NumSteps(scen) = 0
            THEN \* connect-only checks: close and return True
                 /\ socks' = Append(socks, [s EXCEPT !.open = FALSE])
                 /\ spc' = "done"
                 /\ ret' = "True"
                 /\ ending' = "completed"
            ELSE /\ socks' = Append(socks, s)
                 /\ spc' = "send"
                 /\ UNCHANGED <<ret, ending>>
    /\ leftover' = FALSE       \* a new socket has nothing unread
    /\ UNCHANGED <<scen, step, sent, ops, pending, chunked, data, outcome>>
    /\ UNCHANGED <<entry, children, config, summary, pc, runnerVars, results, exitCode, env, envChanges>>

\* sock.sendall(request): the request of the current step goes out on the
\* current socket and the server decides what to do with it, a well-formed
\* reply arriving in one piece or in two; or the peer is gone and the call
\* raises (BrokenPipeError)
sock_send ==
    /\ spc = "send"
    /\ \/ /\ sent' = Append(sent, [id |-> RequestId(step),
                                   method |-> StepMethod(step),
                                   sock |-> Len(socks)])
          /\ ops' = Append(ops, [op |-> "send", step |-> step,
                                 sock |-> Len(socks)])
          /\ \E r \in ServerReplies, c \in BOOLEAN :
                /\ c => r.kind = "obj"
                /\ pending' = r
                /\ chunked' = c
          /\ spc' = "recv"
          /\ data' = NoReceived
          /\ UNCHANGED <<outcome, ret, ending, socks>>
       \/ /\ outcome' = [outcome EXCEPT ![step] = "raise"]
          /\ spc' = "done"
          /\ ret' = FailRet(scen)
          /\ ending' = "exception"
          /\ data' = NoReceived
          /\ socks' \in AtReturn(socks)
          /\ UNCHANGED <<sent, ops, pending, chunked>>
    /\ UNCHANGED <<scen, step, leftover>>
    /\ UNCHANGED <<entry, children, config, summary, pc, runnerVars, results, exitCode, env, envChanges>>

\* recv raises: the peer reset the connection, or nothing arrived before
\* the socket's deadline
RecvRaises(r, deadline) == r = Reset \/ (r = Silent /\ deadline)

\* recv never returns: nothing arrives and the socket has no deadline
RecvBlocks(r, deadline) == r = Silent /\ ~deadline

\* the socket call of the current step has nothing to read
NothingToRead == ~leftover

\* sock.recv(..) and everything the script does with the bytes, up to the
\* next socket call or the return
sock_recv ==
    /\ spc = "recv"
    /\ ~(NothingToRead /\ RecvBlocks(pending, socks[Len(socks)].deadline))
    /\ LET raises == /\ NothingToRead
                     /\ RecvRaises(pending, socks[Len(socks)].deadline)
           got == IF raises THEN [payload |-> NoData, part |-> "whole"]
                  ELSE Received(pending, chunked, leftover)
           o == IF raises THEN "raise"
                ELSE StepOutcome(scen, step, got.payload)
           a == After(scen, step, o)
           after == IF a.close THEN CloseCurrent(socks) ELSE socks
       IN  /\ data' = [step |-> step, payload |-> got.payload,
                       part |-> got.part,
                       reply |-> IF pending \in Payloads
                                 THEN pending ELSE NoData]
           /\ outcome' = [outcome EXCEPT ![step] = o]
           /\ pending' = NoData
           /\ chunked' = FALSE
           /\ leftover' = (~raises /\ chunked)   \* the second piece stays
           /\ IF a.next \in {"send", "connect"}
              THEN /\ socks' = after
                   /\ spc' = a.next
                   /\ step' = step + 1
                   /\ UNCHANGED <<ret, ending>>
              ELSE /\ socks' \in AtReturn(after)
                   /\ spc' = "done"
                   /\ ret' = a.next
                   /\ ending' = IF o = "raise" THEN "exception"
                                ELSE IF o = "pass" \/ scen \in {"mcp_protocol", "mcp_simple"}
                                THEN "completed"
                                ELSE "step_failed"
                   /\ UNCHANGED step
    /\ ops' = Append(ops, [op |-> "recv", step |-> step, sock |-> Len(socks)])
    /\ UNCHANGED <<scen, sent>>
    /\ UNCHANGED <<entry, children, config, summary, pc, runnerVars, results, exitCode, env, envChanges>>

(***************************************************************************)
(* The test runners: tests/mcp, tests/vscode and tests/providers __main__. *)
(***************************************************************************)
Runners == {"mcp_main", "vscode_main", "providers_main"}

\* The run_test calls of each main, in order.  A test is
\*   a scenario name  run_python_test finds the function named after the
\*                    module and calls it
\*   "no_function"    run_python_test imports a module that has neither a
\*                    function named after it nor main (test_vscode_direct,
\*                    test_vscode_mcp_integration): returns False
\*   "raw_socket"     run_python_test of tests.mcp.test_raw_socket, a module
\*                    that is not among the sources: ImportError or whatever
\*                    its function returns
\*   "shell"          run_shell_test of a script
Tests(e) ==
    CASE e = "mcp_main" ->
           <<"simple_socket", "raw_socket", "mcp_simple", "mcp_protocol", "shell">>
      [] e = "vscode_main" -> <<"no_function", "no_function", "shell", "shell">>
      [] OTHER -> <<"shell">>

\* Python truthiness of what a test function returned
Truthy(v) == v = "True"

\* what the function of a test that runs no protocol check can return,
\* when there is one and it returns
DirectResults(t) ==
    CASE t = "no_function" -> {"False"}
      [] t = "raw_socket" -> {"True", "False", "None"}
      [] OTHER -> {"True", "False"}   \* returncode == 0

\* How a call of run_python_test / run_shell_test can go:
\*   "returned"     the module was imported, the function was found and
\*                  returned `value` (the script ran and returned a status)
\*   "raised"       importlib.import_module, the function or subprocess.run
\*                  raised an Exception
\*   "no_function"  the module has neither the function nor main
TestBehaviours(t) ==
    CASE t = "no_function" -> {[how |-> "no_function", value |-> "None"]}
      [] OTHER -> {[how |-> "returned", value |-> v] : v \in DirectResults(t)}
                  \cup {[how |-> "raised", value |-> "None"]}

\* a run_python_test whose except branch reports success
run_python_test_swallows(b) == IF b.how = "returned" THEN b.value ELSE "True"

\* the value run_python_test returns: what the function returned, and False
\* from the `else` branch and from the `except Exception` branch
run_python_test(b) == IF b.how = "returned" THEN b.value ELSE "False"

\* the value run_shell_test returns: returncode == 0, and False from the
\* `except Exception` branch
run_shell_test(b) == IF b.how = "returned" THEN b.value ELSE "False"

\* the name run_test was called for, with how the call went
Ran(b) ==
    how' = Append(how, [test |-> Tests(entry)[testIdx + 1], how |-> b.how])

\* a run_test that counts every test as passed and the falsy ones as
\* failed as well
Record_counts_twice(v) ==
    /\ passed' = passed + 1
    /\ failed' = IF Truthy(v) THEN failed ELSE failed + 1
    /\ recorded' = Append(recorded, Truthy(v))
    /\ testIdx' = testIdx + 1
    /\ pc' = IF testIdx + 1 = Len(Tests(entry)) THEN "summary" ELSE "run_test"

\* the body of run_test after test_func returned v
Record(v) ==
    /\ IF Truthy(v)
       THEN passed' = passed + 1 /\ failed' = failed
       ELSE failed' = failed + 1 /\ passed' = passed
    /\ recorded' = Append(recorded, Truthy(v))
    /\ testIdx' = testIdx + 1
    /\ pc' = IF testIdx + 1 = Len(Tests(entry)) THEN "summary" ELSE "run_test"

\* run_test(name, run_python_test, module) up to the call of a protocol check
run_test_call ==
    /\ entry \in Runners
    /\ pc = "run_test"
    /\ Tests(entry)[testIdx + 1] \in Scenarios
    /\ ScenCall(Tests(entry)[testIdx + 1])
    /\ pc' = "in_test"
    /\ UNCHANGED <<entry, children, config, summary, runnerVars, results, exitCode, env, envChanges>>

\* .. and from the return of the protocol check on.  The bytes the check
\* received are gone with its frame; what it sent, how its steps ended and
\* what it returned stay visible until the next check is called.
run_test_return ==
    /\ entry \in Runners
    /\ pc = "in_test"
    /\ spc = "done"
    /\ Record(ret)
    /\ Ran([how |-> "returned", value |-> ret])
    /\ data' = NoReceived
    /\ UNCHANGED <<scen, spc, step, socks, sent, ops, pending, chunked,
                   leftover, outcome, ret, ending>>
    /\ UNCHANGED <<entry, children, config, summary, results, exitCode, env,
                   envChanges>>

\* run_test of a test that runs no protocol check
run_test ==
    /\ entry \in Runners
    /\ pc = "run_test"
    /\ Tests(entry)[testIdx + 1] \notin Scenarios
    /\ \E b \in TestBehaviours(Tests(entry)[testIdx + 1]) :
          /\ Record(IF Tests(entry)[testIdx + 1] = "shell"
                    THEN run_shell_test(b) ELSE run_python_test(b))
          /\ Ran(b)
    /\ UNCHANGED <<entry, children, config, summary, results, exitCode, env, envChanges, scenVars>>

\* a main that reports success as soon as one test passed
main_result_any_passed == passed > 0

\* main's return value
main_result == failed = 0

\* the summary, `return failed == 0` and sys.exit(0 if success else 1)
main_exit ==
    /\ entry \in Runners
    /\ pc = "summary"
    /\ summary' = [printed |-> TRUE, total |-> passed + failed,
                    passed |-> passed, failed |-> failed, ok |-> main_result]
    /\ exitCode' = IF main_result THEN 0 ELSE 1
    /\ pc' = "exited"
    /\ UNCHANGED <<entry, children, config, runnerVars, results, env, envChanges, scenVars>>

(***************************************************************************)
(* The diagnostic tool: tests/vscode/vscode_mcp_diagnostic.py main.        *)
(***************************************************************************)
\* results[name] = value: the dict keeps insertion order.  Next to the
\* value the entry keeps what the check looked at (saw) and the remediation
\* it printed (hint): "start_server" is the line
\* "Start it with: nixai mcp-server start", "none" is no such line.
AddResult(name, b, saw, hint) ==
    results' = Append(results, [name |-> name, ok |-> b, saw |-> saw,
                                hint |-> hint])

\* os.path.getsize: a socket special file has size 0
FileSize(e) == IF e = "regular" THEN 1 ELSE 0

\* pgrep -f "nixai mcp-server": found, not found, or pgrep cannot be run
check_mcp_server_running ==
    /\ entry = "diagnostic"
    /\ pc = "check_mcp_server_running"
    /\ \E pgrep \in {"found", "not_found", "error"} :
        AddResult("server_running", pgrep = "found", pgrep,
                  IF pgrep = "not_found" THEN "start_server" ELSE "none")
    /\ pc' = "check_unix_socket"
    /\ UNCHANGED <<entry, children, config, summary, runnerVars, exitCode, env, envChanges, scenVars>>

\* check_unix_socket up to os.path.exists(socket_path)
check_unix_socket ==
    /\ entry = "diagnostic"
    /\ pc = "check_unix_socket"
    /\ IF PathExists(env)
       THEN pc' = "check_unix_socket_getsize" /\ UNCHANGED results
       ELSE /\ pc' = "test_mcp_protocol"
            /\ AddResult("socket_exists", FALSE, "missing", "none")
    /\ UNCHANGED <<entry, children, config, summary, runnerVars, exitCode, env, envChanges, scenVars>>

\* .. and from os.path.getsize on.  getsize is outside the try block: when
\* the file has gone in the meantime the OSError ends the process.
check_unix_socket_getsize ==
    /\ entry = "diagnostic"
    /\ pc = "check_unix_socket_getsize"
    /\ IF ~PathExists(env)
       THEN pc' = "exited" /\ exitCode' = 1 /\ UNCHANGED results
       ELSE /\ pc' = "test_mcp_protocol"
            /\ AddResult("socket_exists", FileSize(env) # 0, env, "none")
            /\ UNCHANGED exitCode
    /\ UNCHANGED <<entry, children, config, summary, runnerVars, env, envChanges, scenVars>>

diagnostic_test_mcp_protocol ==
    /\ entry = "diagnostic"
    /\ pc = "test_mcp_protocol"
    /\ ScenCall("diag_protocol")
    /\ pc' = "in_test_mcp_protocol"
    /\ UNCHANGED <<entry, children, config, summary, runnerVars, results, exitCode, env, envChanges>>

diagnostic_test_mcp_protocol_return ==
    /\ entry = "diagnostic"
    /\ pc = "in_test_mcp_protocol"
    /\ spc = "done"
    /\ AddResult("protocol_working", Truthy(ret), ending, "none")
    /\ ScenReturn
    /\ pc' = "check_vscode_config"
    /\ UNCHANGED <<entry, children, config, summary, runnerVars, exitCode, env, envChanges>>

\* The keys check_vscode_config looks under.
RecognizedKeys ==
    {"mcp.servers", "copilot.mcp.servers", "claude-dev.mcpServers",
     "mcpServers"}

\* What .vscode/settings.json can be:
\*   "missing"     no such file
\*   "unreadable"  open() raises
\*   "badjson"     json.load raises
\*   "not_object"  JSON whose top level is not an object
\*   "object"      a JSON object
SettingsFiles == {"missing", "unreadable", "badjson", "not_object", "object"}

\* What a JSON object can hold under a recognized key:
\*   "absent"         the key is not there
\*   "no_nixai"       an object without "nixai"
\*   "registered"     an object with "nixai": {..}, a server registration
\*   "unusable"       a value for which `'nixai' in value` is true although
\*                    it holds no registration: "nixai": null, the string
\*                    "nixai", the list ["nixai"]
\*   "not_container"  a number, a boolean or null: `'nixai' in value` raises
KeyValues == {"absent", "no_nixai", "registered", "unusable", "not_container"}

Settings ==
    [file : SettingsFiles \ {"object"},
     keys : {[k \in RecognizedKeys |-> "absent"]}]
    \cup [file : {"object"}, keys : [RecognizedKeys -> KeyValues]]

\* `key in settings and 'nixai' in settings[key]`
NixaiIn(v) == v \in {"registered", "unusable"}

\* one of the four `in` tests raises TypeError
ScanRaises(st) == \E k \in RecognizedKeys : st.keys[k] = "not_container"

\* servers_found after the four tests
servers_found(st) == {k \in RecognizedKeys : NixaiIn(st.keys[k])}

\* settings[server_key]['nixai'] or nixai_config.get(..) raises in the
\* command format loop
FormatCheckRaises(st) ==
    \E k \in servers_found(st) : st.keys[k] = "unusable"

\* the keys named in "Found MCP server configurations: .."
config_reported(st) ==
    IF st.file = "object" /\ ~ScanRaises(st) THEN servers_found(st) ELSE {}

\* the value check_vscode_config returns; every exception ends in the
\* `except Exception` branch, which returns False
config_value(st) ==
    /\ st.file = "object"
    /\ ~ScanRaises(st)
    /\ servers_found(st) # {}
    /\ ~FormatCheckRaises(st)

check_vscode_config ==
    /\ entry = "diagnostic"
    /\ pc = "check_vscode_config"
    /\ \E st \in Settings :
        /\ AddResult("vscode_config", config_value(st), st.file, "none")
        /\ config' = [probed |-> TRUE,
                       registered |-> {k \in RecognizedKeys :
                                          st.keys[k] = "registered"},
                       reported |-> config_reported(st),
                       ret |-> config_value(st)]
    /\ pc' = "check_vscode_extensions"
    /\ UNCHANGED <<entry, children, summary, runnerVars, exitCode, env, envChanges, scenVars>>

\* code --list-extensions: cannot be run, fails, lists none or some of the
\* required extensions
check_vscode_extensions ==
    /\ entry = "diagnostic"
    /\ pc = "check_vscode_extensions"
    /\ \E code \in {"no_command", "fails", "none_found", "some_found"} :
        AddResult("vscode_extensions", code = "some_found", code, "none")
    /\ config' = NoConfig
    /\ pc' = "create_test_file"
    /\ UNCHANGED <<entry, children, summary, runnerVars, exitCode, env, envChanges, scenVars>>

create_test_file ==
    /\ entry = "diagnostic"
    /\ pc = "create_test_file"
    /\ \E written \in BOOLEAN :
        AddResult("test_file_created", written,
                  IF written THEN "written" ELSE "oserror", "none")
    /\ pc' = "diagnostic_summary"
    /\ UNCHANGED <<entry, children, config, summary, runnerVars, exitCode, env, envChanges, scenVars>>

\* all(results.values())
AllChecksPassed == \A i \in 1..Len(results) : results[i].ok

\* success_count = sum(1 for result in results.values() if result)
RECURSIVE SuccessCount(_)
SuccessCount(rs) ==
    IF rs = << >> THEN 0
    ELSE (IF Head(rs).ok THEN 1 ELSE 0) + SuccessCount(Tail(rs))

\* the exit status of the diagnostic: main() returns nothing and the
\* script ends after it, so the interpreter exits with 0
diagnostic_exit_status == 0

\* provide_manual_activation_steps(), diagnostic_summary(results) and the
\* end of the script
diagnostic_summary ==
    /\ entry = "diagnostic"
    /\ pc = "diagnostic_summary"
    /\ summary' = [printed |-> TRUE, total |-> Len(results),
                    passed |-> SuccessCount(results), ok |-> AllChecksPassed]
    /\ exitCode' = diagnostic_exit_status
    /\ pc' = "exited"
    /\ UNCHANGED <<entry, children, config, runnerVars, results, env, envChanges, scenVars>>

(***************************************************************************)
(* tests/vscode/test_vscode_mcp_integration.py run as a script.            *)
(***************************************************************************)
integration_test_socket_connection ==
    /\ entry = "integration"
    /\ pc = "test_socket_connection"
    /\ ScenCall("socket_connection")
    /\ pc' = "in_test_socket_connection"
    /\ UNCHANGED <<entry, children, config, summary, runnerVars, results, exitCode, env, envChanges>>

integration_test_socket_connection_return ==
    /\ entry = "integration"
    /\ pc = "in_test_socket_connection"
    /\ spc = "done"
    /\ AddResult("socket_ok", Truthy(ret), ending, "none")
    /\ ScenReturn
    /\ pc' = "test_mcp_protocol"
    /\ UNCHANGED <<entry, children, config, summary, runnerVars, exitCode, env, envChanges>>

integration_test_mcp_protocol ==
    /\ entry = "integration"
    /\ pc = "test_mcp_protocol"
    /\ ScenCall("int_protocol")
    /\ pc' = "in_test_mcp_protocol"
    /\ UNCHANGED <<entry, children, config, summary, runnerVars, results, exitCode, env, envChanges>>

integration_test_mcp_protocol_return ==
    /\ entry = "integration"
    /\ pc = "in_test_mcp_protocol"
    /\ spc = "done"
    /\ AddResult("protocol_ok", Truthy(ret), ending, "none")
    /\ ScenReturn
    /\ pc' = "check_vscode_settings"
    /\ UNCHANGED <<entry, children, config, summary, runnerVars, exitCode, env, envChanges>>

\* prints only; every exception is caught inside
check_vscode_settings ==
    /\ entry = "integration"
    /\ pc = "check_vscode_settings"
    /\ pc' = "check_extensions"
    /\ UNCHANGED <<entry, children, config, summary, runnerVars, results, exitCode, env, envChanges, scenVars>>

\* prints only; every exception is caught inside
check_extensions ==
    /\ entry = "integration"
    /\ pc = "check_extensions"
    /\ pc' = "summary"
    /\ UNCHANGED <<entry, children, config, summary, runnerVars, results, exitCode, env, envChanges, scenVars>>

\* the summary lines and the end of the script
integration_summary ==
    /\ entry = "integration"
    /\ pc = "summary"
    /\ exitCode' = 0
    /\ pc' = "exited"
    /\ UNCHANGED <<entry, children, config, summary, runnerVars, results, env, envChanges, scenVars>>

(***************************************************************************)
(* tests/vscode/test_vscode_direct.py run as a script: two checks that     *)
(* start a child process (the bridge script, socat), write the initialize  *)
(* request to its stdin and read its stdout with communicate(timeout=10).  *)
(***************************************************************************)
DirectChecks == {"test_vscode_mcp_connection", "test_socat_direct"}

\* test_vscode_mcp_connection: what it does with the child's stdout
bridge_script_step(p) ==
    IF DecodeRaises(p) THEN "raise"              \* text=True: communicate raises
    ELSE IF p.kind = "empty" THEN "no_response"
    ELSE IF JSONDecodeError(p) THEN "invalid_json"
    ELSE IF p.kind = "jnum" THEN "raise"         \* 'result' in 5
    ELSE IF ~HasResult(p) THEN "no_result"
    ELSE IF ~ResultIsDict(p) THEN "raise"        \* None.get
    ELSE "pass"

\* test_socat_direct: what it does with the child's stdout
socat_direct_step(p) ==
    IF DecodeRaises(p) THEN "raise"
    ELSE IF p.kind = "empty" THEN "no_response"
    ELSE IF JSONDecodeError(p) THEN "invalid_json"
    ELSE IF p.kind = "jnum" THEN "raise"
    ELSE IF ~HasResult(p) THEN "no_result"
    ELSE "pass"

\* a handler that reports the timeout and leaves the child alone
process_kill_forgotten(c) == c

\* process.kill() in the TimeoutExpired handler
process_kill(c) == "killed"

\* the child the name `process` is bound to changes state
SetChild(cs, c) == [cs EXCEPT ![Len(cs)] = c]

\* the call: the bridge check first looks for the script and returns False
\* when it is not there
direct_call ==
    /\ entry = "direct"
    /\ pc \in DirectChecks
    /\ spc = "idle"
    /\ scen' = pc
    /\ \E script_exists \in BOOLEAN :
          IF pc = "test_vscode_mcp_connection" /\ ~script_exists
          THEN spc' = "done" /\ ret' = "False" /\ ending' = "not_found"
          ELSE spc' = "popen" /\ ret' = "unset" /\ ending' = "running"
    /\ UNCHANGED <<step, socks, sent, ops, pending, chunked, leftover, data,
                   outcome>>
    /\ UNCHANGED <<entry, pc, children, config, summary, runnerVars, results,
                   exitCode, env, envChanges>>

\* subprocess.Popen(..): the child runs, or the command cannot be started
\* and the OSError ends in `except Exception`
direct_popen ==
    /\ entry = "direct"
    /\ spc = "popen"
    /\ \/ /\ children' = Append(children, "running")
          /\ spc' = "communicate"
          /\ UNCHANGED <<ret, ending, outcome>>
       \/ /\ outcome' = [outcome EXCEPT ![1] = "raise"]
          /\ spc' = "done"
          /\ ret' = "False"
          /\ ending' = "start_failed"
          /\ UNCHANGED children
    /\ UNCHANGED <<scen, step, socks, sent, ops, pending, chunked, leftover,
                   data>>
    /\ UNCHANGED <<entry, pc, config, summary, runnerVars, results, exitCode,
                   env, envChanges>>

\* process.communicate(input=request_data, timeout=10) and what the check
\* does with stdout.  communicate returns after the child's streams are at
\* EOF and wait() has reaped it; otherwise it raises TimeoutExpired with
\* the child still running.
direct_communicate ==
    /\ entry = "direct"
    /\ spc = "communicate"
    /\ \E r \in Payloads \cup {Silent} :
          IF r = Silent
          THEN /\ spc' = "timeout_handler"
               /\ UNCHANGED <<children, data, outcome, ret, ending>>
          ELSE LET o == IF scen = "test_socat_direct"
                        THEN socat_direct_step(r)
                        ELSE bridge_script_step(r)
               IN  /\ children' = SetChild(children, "exited")
                   /\ data' = [step |-> 1, payload |-> r, part |-> "whole",
                               reply |-> r]
                   /\ outcome' = [outcome EXCEPT ![1] = o]
                   /\ spc' = "done"
                   /\ ret' = IF o = "pass" THEN "True" ELSE "False"
                   /\ ending' = IF o = "pass" THEN "completed"
                                ELSE IF o = "raise" THEN "exception"
                                ELSE "step_failed"
    /\ UNCHANGED <<scen, step, socks, sent, ops, pending, chunked, leftover>>
    /\ UNCHANGED <<entry, pc, config, summary, runnerVars, results, exitCode,
                   env, envChanges>>

\* except subprocess.TimeoutExpired: print, process.kill(); then the
\* `return False` at the end of the function
direct_timeout_handler ==
    /\ entry = "direct"
    /\ spc = "timeout_handler"
    /\ children' = SetChild(children, process_kill(children[Len(children)]))
    /\ outcome' = [outcome EXCEPT ![1] = "raise"]
    /\ spc' = "done"
    /\ ret' = "False"
    /\ ending' = "timeout"
    /\ UNCHANGED <<scen, step, socks, sent, ops, pending, chunked, leftover,
                   data>>
    /\ UNCHANGED <<entry, pc, config, summary, runnerVars, results, exitCode,
                   env, envChanges>>

\* success1 = test_vscode_mcp_connection(); success2 = test_socat_direct()
direct_return ==
    /\ entry = "direct"
    /\ pc \in DirectChecks
    /\ spc = "done"
    /\ AddResult(pc, Truthy(ret), ending, "none")
    /\ ScenReturn
    /\ pc' = IF pc = "test_vscode_mcp_connection" THEN "test_socat_direct"
             ELSE "summary"
    /\ UNCHANGED <<entry, children, config, summary, runnerVars, exitCode, env,
                   envChanges>>

\* the result lines and the end of the script
direct_summary ==
    /\ entry = "direct"
    /\ pc = "summary"
    /\ exitCode' = 0
    /\ pc' = "exited"
    /\ UNCHANGED <<entry, children, config, summary, runnerVars, results, env,
                   envChanges, scenVars>>

(***************************************************************************)
(* The environment and the specification.                                  *)
(***************************************************************************)
Entries == Runners \cup {"diagnostic", "integration", "direct"}

FirstPc(e) ==
    CASE e \in Runners -> "run_test"
      [] e = "diagnostic" -> "check_mcp_server_running"
      [] e = "direct" -> "test_vscode_mcp_connection"
      [] OTHER -> "test_socket_connection"

\* the program is about to look at the host: os.path.exists, os.path.getsize
\* or sock.connect on the socket path
ReadsHost ==
    \/ spc = "connect"
    \/ /\ entry = "diagnostic"
       /\ pc \in {"check_unix_socket", "check_unix_socket_getsize",
                   "test_mcp_protocol"}

\* the server starts or stops, the socket file appears or disappears.  A
\* change shows only in what the program reads next from the host, so it is
\* taken right before such a read.
EnvChange ==
    /\ pc # "exited"
    /\ ReadsHost
    /\ envChanges < MaxEnvChanges
    /\ \E e \in EnvStates \ {env} : env' = e
    /\ envChanges' = envChanges + 1
    /\ UNCHANGED <<entry, children, config, summary, pc, runnerVars, results, exitCode, scenVars>>

Init ==
    /\ entry \in Entries
    /\ pc = FirstPc(entry)
    /\ testIdx = 0
    /\ passed = 0
    /\ failed = 0
    /\ recorded = << >>
    /\ how = << >>
    /\ results = << >>
    /\ config = NoConfig
    /\ summary = NoSummary
    /\ children = << >>
    /\ exitCode = -1
    /\ env \in EnvStates
    /\ envChanges = 0
    /\ scen = "none"
    /\ spc = "idle"
    /\ step = 1
    /\ socks = << >>
    /\ sent = << >>
    /\ ops = << >>
    /\ pending = NoData
    /\ chunked = FALSE
    /\ leftover = FALSE
    /\ data = NoReceived
    /\ outcome = NoOutcomes
    /\ ret = "unset"
    /\ ending = "running"

\* the steps of the program
ProgramNext ==
    \/ sock_connect
    \/ sock_send
    \/ sock_recv
    \/ run_test_call
    \/ run_test_return
    \/ run_test
    \/ main_exit
    \/ check_mcp_server_running
    \/ check_unix_socket
    \/ check_unix_socket_getsize
    \/ diagnostic_test_mcp_protocol
    \/ diagnostic_test_mcp_protocol_return
    \/ check_vscode_config
    \/ check_vscode_extensions
    \/ create_test_file
    \/ diagnostic_summary
    \/ integration_test_socket_connection
    \/ integration_test_socket_connection_return
    \/ integration_test_mcp_protocol
    \/ integration_test_mcp_protocol_return
    \/ check_vscode_settings
    \/ check_extensions
    \/ integration_summary
    \/ direct_call
    \/ direct_popen
    \/ direct_communicate
    \/ direct_timeout_handler
    \/ direct_return
    \/ direct_summary

Next == ProgramNext \/ EnvChange

Spec == Init /\ [][Next]_vars

(***************************************************************************)
(* Properties.                                                             *)
(***************************************************************************)
RunnerExited == entry \in Runners /\ pc = "exited"

\* the protocol check has returned to its caller
ScenDone == scen # "none" /\ spc = "done"

\* the checks that decode the response and look at its envelope
ProtocolChecks == {"mcp_protocol", "int_protocol", "diag_protocol"}

\* the state right after a protocol check handled the response to step
\* data.step
Handled ==
    scen \in ProtocolChecks /\ data.step >= 1 /\ data.payload \in Payloads

StepFailures == {"no_response", "invalid_json", "no_result", "shape"}

\* C1: a test runner exits with status 0 if and only if every test it ran
\* was recorded as PASSED (failed = 0 at the end of main), and with status 1
\* otherwise.
C1_ExitZeroIffAllPassed ==
    RunnerExited =>
        /\ exitCode \in {0, 1}
        /\ Len(recorded) = Len(Tests(entry))
        /\ (exitCode = 0) <=> (\A i \in 1..Len(recorded) : recorded[i])
        /\ (exitCode = 0) <=> (failed = 0)

\* a runner that ran a passing and a failing test and exited with 1
C1_Witness ==
    /\ RunnerExited
    /\ exitCode = 1
    /\ \E i, j \in 1..Len(recorded) : recorded[i] /\ ~recorded[j]

\* C2: when the diagnostic tool finishes with a check recorded as failed it
\* exits with 1; it exits with 0 only when all checks passed.
C2_DiagnosticExitCode ==
    (entry = "diagnostic" /\ pc = "exited") =>
        /\ (Len(results) = 6 /\ ~AllChecksPassed) => exitCode = 1
        /\ exitCode = 0 => AllChecksPassed

\* C3: the runner records the MCP protocol test as PASSED exactly when all
\* three steps (initialize, tools/list, tools/call) passed.
C3_RunnerRecordsScenarioPass ==
    (entry = "mcp_main" /\ scen = "mcp_protocol" /\ testIdx >= 4) =>
        (recorded[4] <=> (\A i \in 1..3 : outcome[i] = "pass"))

\* C4: a step that fails on an empty response, an undecodable response or
\* an unmet shape does not end the scenario: when the check returned without
\* a transport exception, the step after the failed one was sent and has an
\* outcome of its own.
C4_StepFailureDoesNotStop ==
    (ScenDone /\ ending # "exception") =>
        \A i \in 1..MaxSteps :
            (i < NumSteps(scen) /\ outcome[i] \in StepFailures) =>
                (Len(sent) > i /\ outcome[i + 1] # "none")

\* C5: when a protocol check has returned, on whatever path, no socket it
\* connected is still open.
C5_NoOpenConnectionAtReturn ==
    ScenDone => \A i \in 1..Len(socks) : ~(socks[i].open /\ socks[i].connected)

\* C6: every receive is bounded by a deadline, so a script that has not
\* exited can always take a step, whatever the server does: none blocks
\* forever in recv.
C6_NoScriptBlocksInRecv == pc # "exited" => ENABLED ProgramNext

\* the only states in which a script cannot step: a recv without a deadline
\* on a connection the server never writes to
BlockedInRecv ==
    spc = "recv" /\ NothingToRead
        /\ RecvBlocks(pending, socks[Len(socks)].deadline)

OnlyRecvBlocks == (pc # "exited" /\ ~BlockedInRecv) => ENABLED ProgramNext

\* C7: if opening a connection fails, the check ends as failed and no
\* request of any step was sent.
C7_ConnectFailureSendsNothing ==
    (ScenDone /\ ending \in {"connect_failed", "not_found"}) =>
        (~Truthy(ret) /\ sent = << >>)

\* C8: a step passes only on a response that has exactly one of `result`
\* and `error`.
C8_ExactlyOneOfResultAndError ==
    (Handled /\ outcome[data.step] = "pass") =>
        (HasResult(data.payload) /\ ~data.payload.error)
        \/ (~HasResult(data.payload) /\ data.payload.error)

\* C9: a step never passes on a response whose id differs from the id of
\* the request just sent.
C9_IdMismatchIsFailure ==
    (Handled /\ data.payload.id # sent[Len(sent)].id) =>
        outcome[data.step] # "pass"

\* C10: a zero-length read is reported as "no response", never through the
\* invalid-JSON or the generic-error path.
C10_EmptyReadIsNoResponse ==
    (Handled /\ data.payload.kind = "empty") =>
        outcome[data.step] = "no_response"

\* the checks main runs, in the order it runs them
DiagnosticChecks ==
    << "server_running", "socket_exists", "protocol_working",
       "vscode_config", "vscode_extensions", "test_file_created" >>

\* C11: with no socket file at the configured path the socket check of the
\* diagnostic fails and prints a remediation that refers to starting the
\* server; the socket check's value follows from the path alone and the
\* process check's value from what pgrep found.
C11_MissingSocketFailsWithStartHint ==
    \A i \in 1..Len(results) :
        /\ (results[i].name = "socket_exists" /\ results[i].saw = "missing") =>
               (~results[i].ok /\ results[i].hint = "start_server")
        /\ results[i].name = "server_running" =>
               (results[i].ok <=> results[i].saw = "found")

\* C12: whatever the checks find and however the host changes meanwhile,
\* a finished diagnostic run has executed every check exactly once, in
\* order, and recorded a result for each.
C12_EveryProbeRunsOnceInOrder ==
    (entry = "diagnostic" /\ pc = "exited") =>
        /\ Len(results) = Len(DiagnosticChecks)
        /\ \A i \in 1..Len(results) : results[i].name = DiagnosticChecks[i]

\* C13: every summary adds up.  In a runner each finished test is in
\* exactly one of the two counters, the total printed is the number of
\* tests run and the verdict is true exactly when nothing failed.  In the
\* diagnostic the count printed is the number of true results, out of all
\* the results recorded, and "all checks passed" is printed exactly when
\* every recorded result is true.
C13_SummaryAddsUp ==
    /\ entry \in Runners =>
          /\ Len(recorded) = testIdx
          /\ passed = Cardinality({i \in 1..Len(recorded) : recorded[i]})
          /\ failed = Cardinality({i \in 1..Len(recorded) : ~recorded[i]})
          /\ passed + failed = testIdx
          /\ summary.printed =>
                /\ summary.total = Len(recorded)
                /\ summary.passed + summary.failed = summary.total
                /\ summary.ok <=> summary.failed = 0
    /\ (entry = "diagnostic" /\ summary.printed) =>
          /\ summary.total = Len(results)
          /\ summary.passed =
                Cardinality({i \in 1..Len(results) : results[i].ok})
          /\ summary.ok <=> summary.passed = summary.total
          /\ summary.ok <=> (\A i \in 1..Len(results) : results[i].ok)

\* a diagnostic summary over results of both kinds
C13_Witness ==
    /\ entry = "diagnostic"
    /\ summary.printed
    /\ summary.total = Len(DiagnosticChecks)
    /\ summary.passed = 2
    /\ ~summary.ok

\* C14: a tools/list reply whose `result.tools` is an empty list passes
\* the step, and one whose `result.tools` is not a list (a number, a
\* string, an object, null) fails it.
C14_ToolsMustBeAList ==
    (Handled /\ scen \in {"mcp_protocol", "diag_protocol"}
        /\ StepMethod(data.step) = "tools/list") =>
        /\ data.payload.result = "tools_empty" => outcome[data.step] = "pass"
        /\ data.payload.result \in NonListTools => outcome[data.step] # "pass"

\* C15: a well-formed reply that arrives in pieces is put together before
\* it is decoded, so the step ends as it does when the same reply arrives
\* in one read, and no piece is ever read as the response to the next
\* request.
C15_ChunksAreReassembled ==
    Handled =>
        /\ data.part = "head" =>
              outcome[data.step] = StepOutcome(scen, data.step, data.reply)
        /\ data.part # "tail"

\* C16: in tests/mcp test_mcp_protocol the socket calls on the one
\* connection alternate send, recv, send, recv, ..: the request of a step
\* goes out only after the recv of the step before returned; the requests
\* are initialize with id 1, tools/list with id 2 and tools/call with id 3,
\* in this order, each sent once, so no two requests share an id.
C16_SendReceiveAlternate ==
    scen = "mcp_protocol" =>
        /\ \A k \in 1..Len(ops) :
              /\ ops[k].op = (IF k % 2 = 1 THEN "send" ELSE "recv")
              /\ ops[k].step = (k + 1) \div 2
              /\ ops[k].sock = 1
        /\ spc = "send" => Len(ops) = 2 * (step - 1)
        /\ Len(sent) <= 3
        /\ \A i \in 1..Len(sent) :
              /\ sent[i].id = i
              /\ sent[i].method =
                    <<"initialize", "tools/list", "tools/call">>[i]
        /\ \A i, j \in 1..Len(sent) : sent[i].id = sent[j].id => i = j

\* all three requests went out and the third recv returned
C16_Witness ==
    /\ scen = "mcp_protocol"
    /\ Len(sent) = 3
    /\ Len(ops) = 6
    /\ spc = "done"

\* C17: a protocol check opens at most one connection per run and sends
\* all its requests, tools/list after initialize, on that connection.
C17_OneConnectionPerCheck ==
    scen \in ProtocolChecks =>
        /\ Len(socks) <= 1
        /\ \A i \in 1..Len(sent) : sent[i].sock = sent[1].sock

\* C18: the value of the socket check does not depend on the size of the
\* file: it is true for a path that exists, is a socket and accepts a
\* connection (a listening server socket, whose size is 0), and false for a
\* path that is missing, is not a socket, or is a socket that refuses
\* connections.
C18_SocketCheckIgnoresSize ==
    [][(/\ entry = "diagnostic"
        /\ pc \in {"check_unix_socket", "check_unix_socket_getsize"}
        /\ pc' = "test_mcp_protocol")
       => (results'[Len(results')].ok <=> env = "live")]_vars

\* C19: whatever .vscode/settings.json is (missing, unreadable, not JSON,
\* JSON with anything under any of the recognized keys) the configuration
\* check returns a boolean; it returns true exactly when at least one
\* recognized key holds a nixai registration, and the keys it reports are
\* exactly those that hold one.
C19_ConfigCheckFindsRegistrations ==
    config.probed =>
        /\ config.ret \in BOOLEAN
        /\ config.ret <=> config.registered # {}
        /\ config.reported = config.registered

\* the recorded checks other than one that could not run because the
\* `code` command is not there
NotSkipped ==
    {i \in 1..Len(results) :
        ~(results[i].name = "vscode_extensions" /\ results[i].saw = "no_command")}

\* C20: when the command that lists the editor's extensions is not
\* available the extension check is skipped, not failed: it is not among
\* the checks counted as failed, and the overall verdict is that of the
\* other checks.
C20_MissingCommandIsSkipped ==
    (entry = "diagnostic" /\ summary.printed) =>
        /\ summary.total - summary.passed =
              Cardinality({i \in NotSkipped : ~results[i].ok})
        /\ summary.ok <=> (\A i \in NotSkipped : results[i].ok)

\* C21: in the checks that talk to a child process over its standard
\* streams, whenever the check has returned (a reply was read, there was no
\* output, the output was not JSON, communicate timed out after 10 seconds
\* or the command could not be started) no child it started is still
\* running: each has exited or has been killed.
C21_NoChildLeftRunning ==
    (entry = "direct" /\ spc \in {"done", "idle"}) =>
        \A i \in 1..Len(children) : children[i] \in {"exited", "killed"}

\* both checks started a child, the first timed out, the second answered
C21_Witness ==
    /\ entry = "direct"
    /\ pc = "exited"
    /\ children = <<"killed", "exited">>

\* C22: in a test runner, a test that raises an exception, cannot be
\* imported or has neither a function named after its module nor main is
\* recorded as one FAILED test, and the run goes on: the runner is then at
\* the next registered test (or at the summary) and can take that step, the
\* tests are run in the order they are registered, and a run that reaches
\* its end has run and counted every one of them.
C22_FailingTestDoesNotStopRun ==
    entry \in Runners =>
        /\ Len(how) = testIdx
        /\ Len(recorded) = testIdx
        /\ \A i \in 1..Len(how) :
              /\ how[i].test = Tests(entry)[i]
              /\ how[i].how \in {"raised", "no_function"} => ~recorded[i]
        /\ failed = Cardinality({i \in 1..Len(recorded) : ~recorded[i]})
        /\ pc \in {"run_test", "summary"} => ENABLED ProgramNext
        /\ pc = "run_test" => testIdx < Len(Tests(entry))
        /\ pc \in {"summary", "exited"} => testIdx = Len(Tests(entry))

\* tests/mcp ran to its end although its second test, whose module is
\* not there, raised
C22_Witness ==
    /\ pc = "exited"
    /\ entry = "mcp_main"
    /\ how[2].how = "raised"
    /\ Len(recorded) = 5

====
